---- MODULE Spec2Model ----
(***************************************************************************)
(* A model of src/app.py: the Streamlit script that sends each uploaded    *)
(* file to the Gemini client, cleans and decodes the JSON answer, tags and *)
(* accumulates the records, and exports them as a table.                   *)
(*                                                                         *)
(* Text is modelled as a sequence of one-character strings, so that        *)
(* strip(), startswith(), slicing and JSON decoding work on characters as  *)
(* the Python code does.  Python values are records [t, v]: t is the       *)
(* Python type name and v is a sequence (the characters of a str or int,   *)
(* the items of a list, the (key, value) pairs of a dict in insertion      *)
(* order).                                                                 *)
(***************************************************************************)
EXTENDS Integers, Sequences, FiniteSets, TLC

VARIABLES
  api_key,         \* sidebar: the API key, "" when none           (l. 33-37)
  user_school,     \* text input: school name                      (l. 55)
  user_program,    \* text input: program name                     (l. 57)
  uploaded_files,  \* file uploader: sequence of [name, type]      (l. 59-63)
  pc,              \* position of the script run
  i,               \* number of files the loop has finished        (l. 147)
  all_data,        \* the accumulated records                      (l. 109)
  ui,              \* messages shown: st.warning / st.error        (l. 103-227)
  status_text,     \* the status placeholder                       (l. 111)
  progress_bar,    \* the progress bar, as <<done, total>>         (l. 110)
  calls,           \* the calls made to get_gemini_response        (l. 157)
  outcomes,        \* what the service did at each call (history)
  df,              \* the DataFrame shown in the preview           (l. 180-198)
  download,        \* the download button and its Excel bytes      (l. 200-225)
  text,            \* clean_json_text: the raw response under study
  payload,         \* the JSON text that was wrapped into `text`
  cleaned,         \* clean_json_text(text)
  recleaned,       \* clean_json_text(cleaned)
  cpc              \* position of the clean_json_text study

vars ==
  <<api_key, user_school, user_program, uploaded_files, pc, i, all_data, ui,
    status_text, progress_bar, calls, outcomes, df, download,
    text, payload, cleaned, recleaned, cpc>>

runVars ==
  <<pc, i, all_data, ui, status_text, progress_bar, calls, outcomes, df,
    download>>

inputVars == <<api_key, user_school, user_program, uploaded_files>>

cleanVars == <<text, payload, cleaned, recleaned, cpc>>

(***************************************************************************)
(* Bounds of the model.                                                    *)
(***************************************************************************)
MaxFiles == 2      \* at most this many uploaded files
MaxWs == 1         \* whitespace runs around a fenced answer, at most this long

(***************************************************************************)
(* Text constants of the program.                                          *)
(***************************************************************************)
\* the character ` (U+0060), which SANY cannot read inside a string
Backtick == "BACKTICK"
School_CN ==
  <<"S", "c", "h", "o", "o", "l", "_", "C", "N">>
School_EN ==
  <<"S", "c", "h", "o", "o", "l", "_", "E", "N">>
Program_CN ==
  <<"P", "r", "o", "g", "r", "a", "m", "_", "C", "N">>
Program_EN ==
  <<"P", "r", "o", "g", "r", "a", "m", "_", "E", "N">>
Course_Name_EN ==
  <<"C", "o", "u", "r", "s", "e", "_", "N", "a", "m", "e", "_", "E", "N">>
Course_Content_EN ==
  <<"C", "o", "u", "r", "s", "e", "_", "C", "o", "n", "t", "e", "n", "t",
    "_", "E", "N">>
Source_File ==
  <<"S", "o", "u", "r", "c", "e", "_", "F", "i", "l", "e">>
FenceJson ==
  <<Backtick, Backtick, Backtick, "j", "s", "o", "n">>
Fence ==
  <<Backtick, Backtick, Backtick>>
ErrorPrefix ==
  <<"E", "r", "r", "o", "r", ":", " ">>
ExpectingValue ==
  <<"E", "x", "p", "e", "c", "t", "i", "n", "g", " ", "v", "a", "l", "u", "e">>
ExtraData ==
  <<"E", "x", "t", "r", "a", " ", "d", "a", "t", "a">>
ExpectingComma ==
  <<"E", "x", "p", "e", "c", "t", "i", "n", "g", " ", "'", ",", "'", " ",
    "d", "e", "l", "i", "m", "i", "t", "e", "r">>
ExpectingColon ==
  <<"E", "x", "p", "e", "c", "t", "i", "n", "g", " ", "'", ":", "'", " ",
    "d", "e", "l", "i", "m", "i", "t", "e", "r">>
ExpectingPropertyName ==
  <<"E", "x", "p", "e", "c", "t", "i", "n", "g", " ", "p", "r", "o", "p",
    "e", "r", "t", "y", " ", "n", "a", "m", "e", " ", "e", "n", "c", "l",
    "o", "s", "e", "d", " ", "i", "n", " ", "d", "o", "u", "b", "l", "e",
    " ", "q", "u", "o", "t", "e", "s">>
UnterminatedString ==
  <<"U", "n", "t", "e", "r", "m", "i", "n", "a", "t", "e", "d", " ", "s",
    "t", "r", "i", "n", "g", " ", "s", "t", "a", "r", "t", "i", "n", "g",
    " ", "a", "t">>
LineText ==
  <<":", " ", "l", "i", "n", "e", " ">>
ColumnText ==
  <<" ", "c", "o", "l", "u", "m", "n", " ">>
CharText ==
  <<" ", "(", "c", "h", "a", "r", " ">>
NoItemAssignment ==
  <<"'", " ", "o", "b", "j", "e", "c", "t", " ", "d", "o", "e", "s", " ",
    "n", "o", "t", " ", "s", "u", "p", "p", "o", "r", "t", " ", "i", "t",
    "e", "m", " ", "a", "s", "s", "i", "g", "n", "m", "e", "n", "t">>
NotIterable ==
  <<"'", " ", "o", "b", "j", "e", "c", "t", " ", "i", "s", " ", "n", "o",
    "t", " ", "i", "t", "e", "r", "a", "b", "l", "e">>
ListIndices ==
  <<"l", "i", "s", "t", " ", "i", "n", "d", "i", "c", "e", "s", " ", "m",
    "u", "s", "t", " ", "b", "e", " ", "i", "n", "t", "e", "g", "e", "r",
    "s", " ", "o", "r", " ", "s", "l", "i", "c", "e", "s", ",", " ", "n",
    "o", "t", " ", "s", "t", "r">>
ImagePrefix ==
  <<"i", "m", "a", "g", "e">>
ImagePng ==
  <<"i", "m", "a", "g", "e", "/", "p", "n", "g">>
TextPlain ==
  <<"t", "e", "x", "t", "/", "p", "l", "a", "i", "n">>
DotPng ==
  <<".", "p", "n", "g">>
DotJpg ==
  <<".", "j", "p", "g">>
CoursesSuffix ==
  <<"_", "C", "o", "u", "r", "s", "e", "s", ".", "x", "l", "s", "x">>
DefaultLabel ==
  <<"C", "o", "u", "r", "s", "e", "s", "_", "T", "r", "a", "n", "s", "l",
    "a", "t", "e", "d", ".", "x", "l", "s", "x">>
NanText ==
  <<"n", "a", "n">>
NullText ==
  <<"n", "u", "l", "l">>
NotProvided ==
  <<"<", "n", "o", "t", " ", "p", "r", "o", "v", "i", "d", "e", "d", ",",
    " ", "i", "n", "f", "e", "r", " ", "f", "r", "o", "m", " ", "c", "o",
    "n", "t", "e", "n", "t", ">">>

(***************************************************************************)
(* Python str helpers.                                                     *)
(***************************************************************************)
\* the characters str.strip() removes (those the model's alphabet has)
PyWhitespace == {" ", "\n", "\t", "\r"}

\* s[a:], s[:n] as Python slices them (1-based here)
DropFirst(s, n) == IF n >= Len(s) THEN <<>> ELSE SubSeq(s, n + 1, Len(s))

DropLast(s, n) == IF n >= Len(s) THEN <<>> ELSE SubSeq(s, 1, Len(s) - n)

startswith(s, p) == Len(p) <= Len(s) /\ SubSeq(s, 1, Len(p)) = p

endswith(s, p) ==
  Len(p) <= Len(s) /\ SubSeq(s, Len(s) - Len(p) + 1, Len(s)) = p

RECURSIVE lstrip(_)
lstrip(s) ==
  IF s # <<>> /\ Head(s) \in PyWhitespace THEN lstrip(Tail(s)) ELSE s

RECURSIVE rstrip(_)
rstrip(s) ==
  IF s # <<>> /\ s[Len(s)] \in PyWhitespace THEN rstrip(DropLast(s, 1)) ELSE s

strip(s) == rstrip(lstrip(s))

\* str.find for a substring: m occurs in s
Contains(s, m) ==
  \E k \in 0..(Len(s) - Len(m)) : SubSeq(s, k + 1, k + Len(m)) = m

Digits == <<"0", "1", "2", "3", "4", "5", "6", "7", "8", "9">>

DigitSet == {Digits[k] : k \in 1..10}

\* str(n) of a natural number
RECURSIVE Dec(_)
Dec(n) ==
  IF n < 10 THEN <<Digits[n + 1]>>
  ELSE Dec(n \div 10) \o <<Digits[(n % 10) + 1]>>

(***************************************************************************)
(* Python values and exceptions.                                           *)
(***************************************************************************)
PyNone == [t |-> "NoneType", v |-> <<>>]

PyStr(s) == [t |-> "str", v |-> s]

PyInt(s) == [t |-> "int", v |-> s]

PyList(items) == [t |-> "list", v |-> items]

PyDict(pairs) == [t |-> "dict", v |-> pairs]

\* the float nan pandas stores for a missing cell
NaN == [t |-> "float", v |-> NanText]

Exc(type, msg) == [type |-> type, msg |-> msg]

NoExc == Exc("", <<>>)

TypeName(val) ==
  CASE val.t = "NoneType" -> <<"N", "o", "n", "e", "T", "y", "p", "e">>
    [] val.t = "str" -> <<"s", "t", "r">>
    [] val.t = "int" -> <<"i", "n", "t">>
    [] val.t = "list" -> <<"l", "i", "s", "t">>
    [] val.t = "dict" -> <<"d", "i", "c", "t">>
    [] OTHER -> <<"f", "l", "o", "a", "t">>

\* d[k] = val on a dict's pairs: replace in place, or insert last
RECURSIVE DictSet(_, _, _)
DictSet(pairs, k, val) ==
  IF pairs = <<>> THEN << <<k, val>> >>
  ELSE IF Head(pairs)[1] = k THEN << <<k, val>> >> \o Tail(pairs)
  ELSE <<Head(pairs)>> \o DictSet(Tail(pairs), k, val)

DictKeys(pairs) == [k \in 1..Len(pairs) |-> pairs[k][1]]

DictHas(pairs, k) == \E n \in 1..Len(pairs) : pairs[n][1] = k

DictGet(pairs, k) ==
  pairs[CHOOSE n \in 1..Len(pairs) : pairs[n][1] = k][2]

(***************************************************************************)
(* clean_json_text (l. 69-75).                                             *)
(***************************************************************************)
\* a variant that cuts three characters for either opening fence
clean_json_text_one_fence(raw) ==
  LET t1 == strip(raw)
      t2 == IF startswith(t1, Fence) THEN DropFirst(t1, 3) ELSE t1
      t3 == IF endswith(t2, Fence) THEN DropLast(t2, 3) ELSE t2
  IN strip(t3)

clean_json_text(raw) ==
  LET t1 == strip(raw)
      t2 == IF startswith(t1, FenceJson) THEN DropFirst(t1, 7)
            ELSE IF startswith(t1, Fence) THEN DropFirst(t1, 3)
            ELSE t1
      t3 == IF endswith(t2, Fence) THEN DropLast(t2, 3) ELSE t2
  IN strip(t3)

(***************************************************************************)
(* json.loads (l. 161), for the JSON the model's answers use: arrays,      *)
(* objects, strings without escapes, non-negative integers and null.       *)
(* Positions are 1-based; a result is                                      *)
(*   [ok, val, end]  the value and the position after it, or               *)
(*   [~ok, stop]     StopIteration(pos): no value starts there, or         *)
(*   [~ok, ~stop]    JSONDecodeError(msg, doc, pos), pos 0-based.          *)
(***************************************************************************)
JsonWs == {" ", "\t", "\n", "\r"}

Parsed(val, end) ==
  [ok |-> TRUE, stop |-> FALSE, val |-> val, end |-> end, msg |-> <<>>,
   pos |-> 0]

StopAt(p) ==
  [ok |-> FALSE, stop |-> TRUE, val |-> PyNone, end |-> p, msg |-> <<>>,
   pos |-> p - 1]

DecodeError(msg, pos) ==
  [ok |-> FALSE, stop |-> FALSE, val |-> PyNone, end |-> 0, msg |-> msg,
   pos |-> pos]

\* a StopIteration reaching a container or the decoder: "Expecting value"
Raised(r) == IF r.stop THEN DecodeError(ExpectingValue, r.pos) ELSE r

CharAt(s, p) == IF p >= 1 /\ p <= Len(s) THEN s[p] ELSE ""

RECURSIVE SkipWs(_, _)
SkipWs(s, p) ==
  IF p <= Len(s) /\ s[p] \in JsonWs THEN SkipWs(s, p + 1) ELSE p

\* the first position >= p holding character c, or Len(s) + 1
RECURSIVE IndexOf(_, _, _)
IndexOf(s, c, p) ==
  IF p > Len(s) \/ s[p] = c THEN p ELSE IndexOf(s, c, p + 1)

\* py_scanstring after the opening quote at p - 1
scanstring(s, p) ==
  LET q == IndexOf(s, "\"", p)
  IN IF q > Len(s) THEN DecodeError(UnterminatedString, p - 2)
     ELSE Parsed(IF q = p THEN <<>> ELSE SubSeq(s, p, q - 1), q + 1)

\* the end of the integer literal starting at p: "0", or [1-9][0-9]*
RECURSIVE DigitsEnd(_, _)
DigitsEnd(s, p) ==
  IF p <= Len(s) /\ s[p] \in DigitSet THEN DigitsEnd(s, p + 1) ELSE p

NumberEnd(s, p) == IF s[p] = "0" THEN p + 1 ELSE DigitsEnd(s, p)

JSONString(str) == IF str.ok THEN Parsed(PyStr(str.val), str.end) ELSE str

JSONNumber(s, p, e) == Parsed(PyInt(SubSeq(s, p, e - 1)), e)

RECURSIVE scan_once(_, _)
RECURSIVE JSONArrayItems(_, _, _)
RECURSIVE JSONObjectPairs(_, _, _)

JSONArray(s, p) ==
  LET p1 == SkipWs(s, p)
  IN IF CharAt(s, p1) = "]" THEN Parsed(PyList(<<>>), p1 + 1)
     ELSE JSONArrayItems(s, p1, <<>>)

\* after one item r of the array: "]" ends it, "," leads to the next
JSONArrayNext(s, r, e, acc) ==
  IF ~r.ok THEN Raised(r)
  ELSE IF CharAt(s, e) = "]" THEN Parsed(PyList(Append(acc, r.val)), e + 1)
  ELSE IF CharAt(s, e) # "," THEN DecodeError(ExpectingComma, e - 1)
  ELSE JSONArrayItems(s, SkipWs(s, e + 1), Append(acc, r.val))

JSONArrayItem(s, r, acc) ==
  JSONArrayNext(s, r, IF r.ok THEN SkipWs(s, r.end) ELSE 0, acc)

JSONArrayItems(s, p, acc) == JSONArrayItem(s, scan_once(s, p), acc)

JSONObject(s, p) ==
  LET p1 == SkipWs(s, p)
      nextchar == CharAt(s, p1)
  IN IF nextchar = "}" THEN Parsed(PyDict(<<>>), p1 + 1)
     ELSE IF nextchar # "\"" THEN DecodeError(ExpectingPropertyName, p1 - 1)
     ELSE JSONObjectPairs(s, p1 + 1, <<>>)

\* after the pair (key, r): "}" ends the object, "," leads to the next key
JSONObjectNext(s, key, r, e3, acc) ==
  IF ~r.ok THEN Raised(r)
  ELSE IF CharAt(s, e3) = "}"
    THEN Parsed(PyDict(DictSet(acc, key.val, r.val)), e3 + 1)
  ELSE IF CharAt(s, e3) # "," THEN DecodeError(ExpectingComma, e3 - 1)
  ELSE IF CharAt(s, SkipWs(s, e3 + 1)) # "\""
    THEN DecodeError(ExpectingPropertyName, SkipWs(s, e3 + 1) - 1)
  ELSE JSONObjectPairs(s, SkipWs(s, e3 + 1) + 1,
                       DictSet(acc, key.val, r.val))

JSONObjectValue(s, key, r, acc) ==
  JSONObjectNext(s, key, r, IF r.ok THEN SkipWs(s, r.end) ELSE 0, acc)

\* after the key: ":" and the value
JSONObjectKey(s, key, e1, acc) ==
  IF ~key.ok THEN key
  ELSE IF CharAt(s, e1) # ":" THEN DecodeError(ExpectingColon, e1 - 1)
  ELSE JSONObjectValue(s, key, scan_once(s, SkipWs(s, e1 + 1)), acc)

JSONObjectString(s, key, acc) ==
  JSONObjectKey(s, key, IF key.ok THEN SkipWs(s, key.end) ELSE 0, acc)

JSONObjectPairs(s, p, acc) == JSONObjectString(s, scanstring(s, p), acc)

scan_once(s, p) ==
  LET nextchar == CharAt(s, p)
  IN CASE nextchar = "\"" -> JSONString(scanstring(s, p + 1))
       [] nextchar = "{" -> JSONObject(s, p + 1)
       [] nextchar = "[" -> JSONArray(s, p + 1)
       [] nextchar = "n" /\ startswith(DropFirst(s, p - 1), NullText) ->
            Parsed(PyNone, p + 4)
       [] nextchar \in DigitSet -> JSONNumber(s, p, NumberEnd(s, p))
       [] OTHER -> StopAt(p)

\* the number of c among the first n characters of s
RECURSIVE CountIn(_, _, _)
CountIn(s, c, n) ==
  IF n = 0 THEN 0 ELSE CountIn(s, c, n - 1) + (IF s[n] = c THEN 1 ELSE 0)

\* the last position <= n of s holding c, or 0
RECURSIVE LastIndexOf(_, _, _)
LastIndexOf(s, c, n) ==
  IF n = 0 \/ s[n] = c THEN n ELSE LastIndexOf(s, c, n - 1)

\* str(JSONDecodeError(msg, doc, pos)): "msg: line L column C (char pos)"
JSONDecodeError(msg, doc, pos) ==
  LET lineno == CountIn(doc, "\n", pos) + 1
      colno == pos - LastIndexOf(doc, "\n", pos) + 1
  IN Exc("JSONDecodeError",
         msg \o LineText \o Dec(lineno) \o ColumnText \o Dec(colno)
             \o CharText \o Dec(pos) \o <<")">>)

\* the end of the document after the value r: only whitespace may follow
JSONDocument(s, r, e) ==
  IF ~r.ok
    THEN [ok |-> FALSE, val |-> PyNone,
          exc |-> JSONDecodeError(r.msg, s, r.pos)]
  ELSE IF e # Len(s) + 1
    THEN [ok |-> FALSE, val |-> PyNone,
          exc |-> JSONDecodeError(ExtraData, s, e - 1)]
  ELSE [ok |-> TRUE, val |-> r.val, exc |-> NoExc]

JSONDecode(s, r) == JSONDocument(s, r, IF r.ok THEN SkipWs(s, r.end) ELSE 0)

\* json.loads(s): [ok, val, exc]
json_loads(s) == JSONDecode(s, Raised(scan_once(s, SkipWs(s, 1))))

(***************************************************************************)
(* The inputs of a run: the uploaded files, and what the Gemini service    *)
(* does at a call.  An answer that holds JSON is written from the value    *)
(* the service means (Dump), so that decoding it is a real round trip.     *)
(***************************************************************************)
QuotaMessage ==
  <<"4", "2", "9", " ", "q", "u", "o", "t", "a">>
TimeoutMessage ==
  <<"t", "i", "m", "e", "d", " ", "o", "u", "t">>
FileA ==
  <<"a", ".", "p", "n", "g">>
FileB ==
  <<"b", ".", "t", "x", "t">>

\* st.file_uploader's files: a name and the browser's MIME type ("" if none)
Files ==
  {[name |-> FileA, type |-> <<>>], [name |-> FileB, type |-> TextPlain]}

FileSeqs == UNION {[1..n -> Files] : n \in 0..MaxFiles}

ApiKeys == {<<>>, <<"k", "e", "y">>}

\* the school and program text inputs
UserInputs ==
  {[school |-> <<>>, program |-> <<>>],
   [school |-> <<"H">>, program |-> <<"C">>]}

\* the messages of the exceptions the client library raises
Messages == {QuotaMessage, TimeoutMessage}

Str1(c) == PyStr(<<c>>)

RecordA ==
  PyDict(<< <<School_CN, Str1("A")>>, <<School_EN, PyStr(<<>>)>>,
            <<Program_CN, Str1("P")>>, <<Program_EN, Str1("P")>>,
            <<Course_Name_EN, Str1("x")>>, <<Course_Content_EN, Str1("c")>> >>)

RecordA2 ==
  PyDict(<< <<School_CN, Str1("A")>>, <<School_EN, Str1("A")>>,
            <<Program_CN, Str1("P")>>, <<Program_EN, Str1("P")>>,
            <<Course_Name_EN, Str1("z")>>, <<Course_Content_EN, Str1("e")>> >>)

RecordB ==
  PyDict(<< <<School_CN, Str1("B")>>, <<School_EN, Str1("B")>>,
            <<Program_CN, Str1("Q")>>, <<Program_EN, Str1("Q")>>,
            <<Course_Name_EN, Str1("y")>>, <<Course_Content_EN, Str1("d")>> >>)

\* a record without the school and program fields, with its own Source_File
RecordBare ==
  PyDict(<< <<Course_Name_EN, Str1("w")>>, <<Source_File, Str1("s")>> >>)

\* a record whose School_EN is null
RecordNull ==
  PyDict(<< <<School_EN, PyNone>>, <<Course_Name_EN, Str1("v")>> >>)

\* arrays of objects: what the prompt asks for
RecordLists ==
  {PyList(<<>>), PyList(<<RecordA>>), PyList(<<RecordB, RecordA2>>),
   PyList(<<RecordBare>>), PyList(<<RecordNull>>)}

\* valid JSON of another shape
OtherJson ==
  {PyDict(<<>>), PyStr(<<>>), PyNone, PyInt(<<"7">>),
   PyDict(<< <<School_CN, Str1("A")>> >>),
   PyList(<<RecordA, PyInt(<<"7">>)>>),
   PyList(<<PyList(<<Str1("x")>>)>>)}

RECURSIVE Dump(_)
RECURSIVE DumpItems(_)
RECURSIVE DumpPairs(_)

\* the JSON text of a value
Dump(val) ==
  CASE val.t = "NoneType" -> NullText
    [] val.t = "str" -> <<"\"">> \o val.v \o <<"\"">>
    [] val.t = "int" -> val.v
    [] val.t = "list" -> <<"[">> \o DumpItems(val.v) \o <<"]">>
    [] OTHER -> <<"{">> \o DumpPairs(val.v) \o <<"}">>

DumpItems(items) ==
  IF items = <<>> THEN <<>>
  ELSE Dump(Head(items))
       \o (IF Len(items) = 1 THEN <<>> ELSE <<",", " ">> \o DumpItems(Tail(items)))

DumpPairs(pairs) ==
  IF pairs = <<>> THEN <<>>
  ELSE <<"\"">> \o Head(pairs)[1] \o <<"\"", ":", " ">> \o Dump(Head(pairs)[2])
       \o (IF Len(pairs) = 1 THEN <<>> ELSE <<",", " ">> \o DumpPairs(Tail(pairs)))

IsArrayOfObjects(val) ==
  val.t = "list" /\ \A k \in 1..Len(val.v) : val.v[k].t = "dict"

\* answers that are not JSON: nothing, a truncated array over two lines,
\* prose before the array
Malformed ==
  {<<>>,
   <<"[", "\n", "{", "\"", "a", "\"", ":">>,
   <<"O", "K", " ", "[", "]">>}

Answer(val, txt) ==
  [kind |-> "text", m |-> <<>>, text |-> txt, val |-> val,
   shape |-> IF IsArrayOfObjects(val) THEN "records" ELSE "other_json"]

\* how the service answers one call
Outcomes ==
  {Answer(val, Dump(val)) : val \in RecordLists \cup OtherJson}
  \cup {Answer(PyList(<<RecordA>>),
               FenceJson \o <<"\n">> \o Dump(PyList(<<RecordA>>))
                 \o <<"\n">> \o Fence),
        Answer(PyList(<<RecordB, RecordA2>>),
               Fence \o Dump(PyList(<<RecordB, RecordA2>>)) \o Fence \o <<"\n">>)}
  \cup {[kind |-> "text", m |-> <<>>, text |-> txt, val |-> PyNone,
         shape |-> "malformed"] : txt \in Malformed}
  \cup {[kind |-> "content_raises", m |-> m, text |-> <<>>, val |-> PyNone,
         shape |-> "none"] : m \in Messages}
  \cup {[kind |-> "configure_raises", m |-> QuotaMessage, text |-> <<>>,
         val |-> PyNone, shape |-> "none"]}

(***************************************************************************)
(* get_gemini_response (l. 77-94).  genai.configure and GenerativeModel    *)
(* run before the try: what they raise propagates.  Image.open, decode and *)
(* generate_content run inside it: what they raise comes back as the text  *)
(* "Error: <message>".                                                     *)
(***************************************************************************)
get_gemini_response(file_obj, mime_type, prompt, key, o) ==
  CASE o.kind = "configure_raises" ->
         [raised |-> TRUE, exc |-> Exc("Exception", o.m), text |-> <<>>]
    [] o.kind = "content_raises" ->
         [raised |-> FALSE, exc |-> NoExc, text |-> ErrorPrefix \o o.m]
    [] OTHER -> [raised |-> FALSE, exc |-> NoExc, text |-> o.text]

\* the prompt's two input clues (l. 118-119)
Prompt(school, program) ==
  [school |-> IF school # <<>> THEN school ELSE NotProvided,
   program |-> IF program # <<>> THEN program ELSE NotProvided]

\* the content sent with the prompt: the opened image, or the decoded text
\* (l. 84-89)
ContentPart(mime_type) ==
  IF startswith(mime_type, ImagePrefix) THEN "image" ELSE "text"

\* l. 152-154
MimeType(file) ==
  IF file.type # <<>> THEN file.type
  ELSE IF endswith(file.name, DotPng) \/ endswith(file.name, DotJpg)
    THEN ImagePng
  ELSE TextPlain

(***************************************************************************)
(* Tagging and accumulation (l. 164-167).                                  *)
(***************************************************************************)
TypeError(msg) == Exc("TypeError", msg)

\* `for item in data`: the items, or the TypeError of a value not iterable
Iterate(data) ==
  CASE data.t = "list" -> [ok |-> TRUE, items |-> data.v, exc |-> NoExc]
    [] data.t = "dict" ->
         [ok |-> TRUE,
          items |-> [k \in 1..Len(data.v) |-> PyStr(data.v[k][1])],
          exc |-> NoExc]
    [] data.t = "str" ->
         [ok |-> TRUE,
          items |-> [k \in 1..Len(data.v) |-> PyStr(<<data.v[k]>>)],
          exc |-> NoExc]
    [] OTHER ->
         [ok |-> FALSE, items |-> <<>>,
          exc |-> TypeError(<<"'">> \o TypeName(data) \o NotIterable)]

\* item[key] = val
SetItem(item, key, val) ==
  CASE item.t = "dict" ->
         [ok |-> TRUE, val |-> PyDict(DictSet(item.v, key, val)),
          exc |-> NoExc]
    [] item.t = "list" ->
         [ok |-> FALSE, val |-> item, exc |-> TypeError(ListIndices)]
    [] OTHER ->
         [ok |-> FALSE, val |-> item,
          exc |-> TypeError(<<"'">> \o TypeName(item) \o NoItemAssignment)]

\* for item in data: item['Source_File'] = file.name
RECURSIVE TagItems(_, _)
TagItems(items, name) ==
  IF items = <<>> THEN [ok |-> TRUE, items |-> <<>>, exc |-> NoExc]
  ELSE LET first == SetItem(Head(items), Source_File, PyStr(name))
           rest == TagItems(Tail(items), name)
       IN IF ~first.ok THEN [ok |-> FALSE, items |-> <<>>, exc |-> first.exc]
          ELSE IF ~rest.ok THEN rest
          ELSE [ok |-> TRUE, items |-> <<first.val>> \o rest.items,
                exc |-> NoExc]

\* a variant that puts the new records before the batch
ExtendFront(acc, data, tagged) ==
  (IF data.t = "list" THEN tagged ELSE Iterate(data).items) \o acc

\* all_data.extend(data), the items of data tagged
Extend(acc, data, tagged) ==
  acc \o (IF data.t = "list" THEN tagged ELSE Iterate(data).items)

(***************************************************************************)
(* The try block of one loop iteration (l. 150-170): the batch after it    *)
(* and the exception it caught, if any.                                    *)
(***************************************************************************)
\* the loop over the items and the extend, once the answer is decoded
TagAndExtend(acc, data, iter, tagged) ==
  IF ~iter.ok THEN [raised |-> TRUE, exc |-> iter.exc, all_data |-> acc]
  ELSE IF ~tagged.ok
    THEN [raised |-> TRUE, exc |-> tagged.exc, all_data |-> acc]
  ELSE [raised |-> FALSE, exc |-> NoExc,
        all_data |-> Extend(acc, data, tagged.items)]

\* the items tagged before the first one that cannot be
RECURSIVE TaggedPrefix(_, _)
TaggedPrefix(items, name) ==
  IF items = <<>> \/ Head(items).t # "dict" THEN <<>>
  ELSE <<SetItem(Head(items), Source_File, PyStr(name)).val>>
       \o TaggedPrefix(Tail(items), name)

\* a variant that appends each record as it is tagged
TagDataEach(acc, data, iter, name) ==
  IF iter.ok /\ ~TagItems(iter.items, name).ok
    THEN [raised |-> TRUE, exc |-> TagItems(iter.items, name).exc,
          all_data |-> acc \o TaggedPrefix(iter.items, name)]
  ELSE TagAndExtend(acc, data, iter, TagItems(iter.items, name))

TagData(acc, data, iter, name) ==
  TagAndExtend(acc, data, iter, TagItems(iter.items, name))

ParseAndTag(acc, raw_response, data, name) ==
  IF raw_response.raised
    THEN [raised |-> TRUE, exc |-> raw_response.exc, all_data |-> acc]
  ELSE IF ~data.ok THEN [raised |-> TRUE, exc |-> data.exc, all_data |-> acc]
  ELSE TagData(acc, data.val, Iterate(data.val), name)

CleanAndParse(acc, raw_response, name) ==
  ParseAndTag(acc, raw_response,
              json_loads(clean_json_text(raw_response.text)), name)

try_block(file, prompt, key, o, acc) ==
  CleanAndParse(acc, get_gemini_response(file, MimeType(file), prompt, key, o),
                file.name)

(***************************************************************************)
(* The table (l. 180-195) and the Excel export (l. 200-217).  A DataFrame  *)
(* is [columns, rows]: each row holds one cell per column.                 *)
(***************************************************************************)
desired_columns ==
  <<School_CN, School_EN, Program_CN, Program_EN, Course_Name_EN,
    Course_Content_EN, Source_File>>

InSeq(seq, x) == \E k \in 1..Len(seq) : seq[k] = x

IndexIn(seq, x) == CHOOSE k \in 1..Len(seq) : seq[k] = x

RECURSIVE AddKeys(_, _)
AddKeys(cols, keys) ==
  IF keys = <<>> THEN cols
  ELSE AddKeys(IF InSeq(cols, Head(keys)) THEN cols
               ELSE Append(cols, Head(keys)),
               Tail(keys))

\* the keys of the records, in order of first appearance
RECURSIVE ColumnsOf(_, _)
ColumnsOf(records, cols) ==
  IF records = <<>> THEN cols
  ELSE ColumnsOf(Tail(records), AddKeys(cols, DictKeys(Head(records).v)))

\* pd.DataFrame(all_data): a record without a column's key gets nan there
DataFrame(records) ==
  LET cols == ColumnsOf(records, <<>>)
  IN [columns |-> cols,
      rows |-> [r \in 1..Len(records) |->
                  [c \in 1..Len(cols) |->
                     IF DictHas(records[r].v, cols[c])
                       THEN DictGet(records[r].v, cols[c])
                     ELSE NaN]]]

\* df[col] = "": a new last column of empty strings
AddColumn(frame, col) ==
  [columns |-> Append(frame.columns, col),
   rows |-> [r \in 1..Len(frame.rows) |-> Append(frame.rows[r], PyStr(<<>>))]]

\* for col in desired_columns: if col not in df.columns: df[col] = ""
RECURSIVE CompleteColumns(_, _)
CompleteColumns(frame, cols) ==
  IF cols = <<>> THEN frame
  ELSE CompleteColumns(IF InSeq(frame.columns, Head(cols)) THEN frame
                       ELSE AddColumn(frame, Head(cols)),
                       Tail(cols))

\* df[desired_columns]
SelectColumns(frame, cols) ==
  [columns |-> cols,
   rows |-> [r \in 1..Len(frame.rows) |->
               [c \in 1..Len(cols) |->
                  frame.rows[r][IndexIn(frame.columns, cols[c])]]]]

\* l. 180-195
BuildTable(records) ==
  SelectColumns(CompleteColumns(DataFrame(records), desired_columns),
                desired_columns)

Cell(frame, r, col) == frame.rows[r][IndexIn(frame.columns, col)]

\* bool(x)
Truthy(val) ==
  CASE val.t = "NoneType" -> FALSE
    [] val.t = "int" -> val.v # <<"0">>
    [] val.t = "float" -> TRUE
    [] OTHER -> val.v # <<>>

\* str(x) in an f-string
StrOf(val) ==
  IF val.t = "NoneType" THEN <<"N", "o", "n", "e">> ELSE val.v

\* df.to_excel(..., index=False): the header row, then the rows, a missing
\* value (None, nan) written as na_rep = ""
to_excel(frame) ==
  [header |-> frame.columns,
   rows |-> [r \in 1..Len(frame.rows) |->
               [c \in 1..Len(frame.columns) |->
                  IF frame.rows[r][c].t \in {"NoneType", "float"} THEN <<>>
                  ELSE frame.rows[r][c].v]]]

\* l. 215-217
FileLabel(frame) ==
  IF frame.rows # <<>> /\ Truthy(Cell(frame, 1, School_EN))
    THEN StrOf(Cell(frame, 1, School_EN)) \o CoursesSuffix
  ELSE DefaultLabel

NoFrame == [shown |-> FALSE, columns |-> <<>>, rows |-> <<>>]

NoDownload ==
  [shown |-> FALSE, file_name |-> <<>>, header |-> <<>>, rows |-> <<>>]

(***************************************************************************)
(* What the page shows: st.warning, st.error and the status placeholder.   *)
(***************************************************************************)
Shown(kind, file, detail) == [kind |-> kind, file |-> file, detail |-> detail]

NoStatus == Shown("", <<>>, <<>>)

(***************************************************************************)
(* The script run.                                                         *)
(***************************************************************************)
RunInit ==
  /\ pc = "idle"
  /\ i = 0
  /\ all_data = <<>>
  /\ ui = <<>>
  /\ status_text = NoStatus
  /\ progress_bar = <<0, 0>>
  /\ calls = <<>>
  /\ outcomes = <<>>
  /\ df = NoFrame
  /\ download = NoDownload

CleanIdle ==
  /\ text = <<>>
  /\ payload = <<>>
  /\ cleaned = <<>>
  /\ recleaned = <<>>
  /\ cpc = "off"

Init ==
  /\ api_key \in ApiKeys
  /\ \E u \in UserInputs : user_school = u.school /\ user_program = u.program
  /\ uploaded_files \in FileSeqs
  /\ RunInit
  /\ CleanIdle

\* the button pressed with no file uploaded (l. 102-104)
StopNoFiles ==
  /\ pc = "idle"
  /\ uploaded_files = <<>>
  /\ ui' = Append(ui, Shown("warning_no_files", <<>>, <<>>))
  /\ pc' = "stopped"
  /\ UNCHANGED <<i, all_data, status_text, progress_bar, calls, outcomes, df,
                 download, inputVars, cleanVars>>

\* a variant without the st.stop() after the error
StopNoKeyGoOn ==
  /\ pc = "idle"
  /\ uploaded_files # <<>>
  /\ api_key = <<>>
  /\ ui' = Append(ui, Shown("error_no_key", <<>>, <<>>))
  /\ all_data' = <<>>
  /\ progress_bar' = <<0, Len(uploaded_files)>>
  /\ i' = 0
  /\ pc' = "loop"
  /\ UNCHANGED <<status_text, calls, outcomes, df, download, inputVars,
                 cleanVars>>

\* the button pressed with files and no API key (l. 105-107)
StopNoKey ==
  /\ pc = "idle"
  /\ uploaded_files # <<>>
  /\ api_key = <<>>
  /\ ui' = Append(ui, Shown("error_no_key", <<>>, <<>>))
  /\ pc' = "stopped"
  /\ UNCHANGED <<i, all_data, status_text, progress_bar, calls, outcomes, df,
                 download, inputVars, cleanVars>>

\* the button pressed with files and a key (l. 109-111)
Begin ==
  /\ pc = "idle"
  /\ uploaded_files # <<>>
  /\ api_key # <<>>
  /\ all_data' = <<>>
  /\ progress_bar' = <<0, Len(uploaded_files)>>
  /\ status_text' = NoStatus
  /\ i' = 0
  /\ pc' = "loop"
  /\ UNCHANGED <<ui, calls, outcomes, df, download, inputVars, cleanVars>>

\* one iteration of the loop over the files (l. 147-174)
ProcessFile ==
  /\ pc = "loop"
  /\ i < Len(uploaded_files)
  /\ \E o \in Outcomes :
       LET file == uploaded_files[i + 1]
           prompt == Prompt(user_school, user_program)
       IN \E r \in {try_block(file, prompt, api_key, o, all_data)} :
          /\ all_data' = r.all_data
          /\ ui' = IF r.raised
                     THEN Append(ui, Shown("error_file", file.name, r.exc.msg))
                   ELSE ui
          /\ calls' = Append(calls, [file |-> file.name,
                                     mime_type |-> MimeType(file),
                                     content |-> ContentPart(MimeType(file)),
                                     prompt |-> prompt])
          /\ outcomes' = Append(outcomes, o)
          /\ status_text' = Shown("analysing", file.name, <<>>)
  /\ progress_bar' = <<i + 1, Len(uploaded_files)>>
  /\ i' = i + 1
  /\ UNCHANGED <<pc, df, download, inputVars, cleanVars>>

\* after the loop, with records: the preview and the download (l. 176-225)
ExportData ==
  /\ pc = "loop"
  /\ i = Len(uploaded_files)
  /\ all_data # <<>>
  /\ LET frame == BuildTable(all_data)
         sheet == to_excel(frame)
     IN /\ df' = [shown |-> TRUE, columns |-> frame.columns,
                  rows |-> frame.rows]
        /\ download' = [shown |-> TRUE, file_name |-> FileLabel(frame),
                        header |-> sheet.header, rows |-> sheet.rows]
  /\ status_text' = Shown("success", <<>>, <<>>)
  /\ pc' = "done"
  /\ UNCHANGED <<i, all_data, ui, progress_bar, calls, outcomes, inputVars,
                 cleanVars>>

\* a variant without the `if all_data` test: an empty table is exported
WarnNoDataExport ==
  /\ pc = "loop"
  /\ i = Len(uploaded_files)
  /\ all_data = <<>>
  /\ df' = [shown |-> TRUE, columns |-> desired_columns, rows |-> <<>>]
  /\ download' = [shown |-> TRUE, file_name |-> DefaultLabel,
                  header |-> desired_columns, rows |-> <<>>]
  /\ status_text' = Shown("success", <<>>, <<>>)
  /\ pc' = "done"
  /\ UNCHANGED <<i, all_data, ui, progress_bar, calls, outcomes, inputVars,
                 cleanVars>>

\* after the loop, without records (l. 176, 226-227)
WarnNoData ==
  /\ pc = "loop"
  /\ i = Len(uploaded_files)
  /\ all_data = <<>>
  /\ ui' = Append(ui, Shown("warning_no_data", <<>>, <<>>))
  /\ status_text' = Shown("success", <<>>, <<>>)
  /\ pc' = "done"
  /\ UNCHANGED <<i, all_data, progress_bar, calls, outcomes, df, download,
                 inputVars, cleanVars>>

\* the next interaction re-runs the script from the top, the widgets keeping
\* their values
Rerun ==
  /\ pc \in {"done", "stopped"}
  /\ pc' = "idle"
  /\ i' = 0
  /\ all_data' = <<>>
  /\ ui' = <<>>
  /\ status_text' = NoStatus
  /\ progress_bar' = <<0, 0>>
  /\ calls' = <<>>
  /\ outcomes' = <<>>
  /\ df' = NoFrame
  /\ download' = NoDownload
  /\ UNCHANGED <<inputVars, cleanVars>>

Next ==
  \/ StopNoFiles
  \/ StopNoKey
  \/ Begin
  \/ ProcessFile
  \/ ExportData
  \/ WarnNoData
  \/ Rerun

Spec == Init /\ [][Next]_vars

(***************************************************************************)
(* clean_json_text on well-formed fenced answers: a JSON array between an  *)
(* opening ``` or ```json fence and a closing ``` fence, with whitespace   *)
(* around the fences and the array.                                        *)
(***************************************************************************)
WsChars == {" ", "\n"}

WsRuns == UNION {[1..n -> WsChars] : n \in 0..MaxWs}

OpeningFences == {Fence, FenceJson}

\* a string value that holds a fence
RecordFence == PyDict(<< <<Course_Name_EN, PyStr(Fence)>> >>)

FencedArrays == RecordLists \cup {PyList(<<RecordFence>>)}

CleanInit ==
  /\ \E val \in FencedArrays, open \in OpeningFences,
        w1 \in WsRuns, w2 \in WsRuns, w3 \in WsRuns, w4 \in WsRuns :
       /\ payload = w2 \o Dump(val) \o w3
       /\ text = w1 \o open \o payload \o Fence \o w4
  /\ cleaned = <<>>
  /\ recleaned = <<>>
  /\ cpc = "raw"
  /\ api_key = <<>>
  /\ user_school = <<>>
  /\ user_program = <<>>
  /\ uploaded_files = <<>>
  /\ RunInit

\* json_str = clean_json_text(raw_response) (l. 160)
CleanOnce ==
  /\ cpc = "raw"
  /\ cleaned' = clean_json_text(text)
  /\ cpc' = "cleaned"
  /\ UNCHANGED <<text, payload, recleaned, inputVars, runVars>>

\* clean_json_text applied to its own output
CleanTwice ==
  /\ cpc = "cleaned"
  /\ recleaned' = clean_json_text(cleaned)
  /\ cpc' = "recleaned"
  /\ UNCHANGED <<text, payload, cleaned, inputVars, runVars>>

CleanNext == CleanOnce \/ CleanTwice

CleanSpec == CleanInit /\ [][CleanNext]_vars

(***************************************************************************)
(* Properties.                                                             *)
(***************************************************************************)
Range(seq) == {seq[k] : k \in 1..Len(seq)}

\* the loop has just finished the file at index i'
FileStep == pc = "loop" /\ i' = i + 1

\* the answer of the service was not a JSON array of objects, or there was
\* no answer
FailingOutcome(o) == o.kind # "text" \/ o.shape # "records"

\* the answer of the service was text other than a JSON array of objects
NonArrayAnswer(o) ==
  o.kind = "text" /\ o.shape \in {"other_json", "malformed"}

\* the step added one error message for the file it handled
ReportsFileError ==
  /\ Len(ui') = Len(ui) + 1
  /\ SubSeq(ui', 1, Len(ui)) = ui
  /\ ui'[Len(ui')].kind = "error_file"
  /\ ui'[Len(ui')].file = uploaded_files[i'].name

CountShown(kind) == Cardinality({k \in 1..Len(ui) : ui[k].kind = kind})

\* C1: a file that fails (call error, malformed JSON, JSON of another
\* shape, an error partway through tagging) leaves the batch exactly as it
\* was, and the loop goes on to the files after it: it ends only when every
\* file has been handled.
C1_FailedFileAddsNothing ==
  /\ [][(FileStep /\ FailingOutcome(outcomes'[i']))
          => (all_data' = all_data /\ pc' = "loop")]_vars
  /\ [](pc = "done" => /\ i = Len(uploaded_files)
                       /\ Len(outcomes) = Len(uploaded_files))

C1_Witness ==
  /\ pc = "done"
  /\ Len(outcomes) = 2
  /\ outcomes[1].val = PyList(<<RecordA, PyInt(<<"7">>)>>)
  /\ outcomes[1].kind = "text"
  /\ outcomes[2].val = PyList(<<RecordB, RecordA2>>)
  /\ Len(all_data) = 2
  /\ CountShown("error_file") = 1

\* the value the claim gives a school or program column: the first
\* record's own non-empty value, else what the user typed
Fallback(col) ==
  IF col \in {School_CN, School_EN} THEN user_school ELSE user_program

Resolved(col) ==
  IF DictHas(all_data[1].v, col) /\ Truthy(DictGet(all_data[1].v, col))
    THEN DictGet(all_data[1].v, col)
  ELSE PyStr(Fallback(col))

GroupColumns == <<School_CN, School_EN, Program_CN, Program_EN>>

\* C2: the rows of the preview and of the spreadsheet all carry the same
\* School_CN, School_EN, Program_CN and Program_EN: the first record's
\* non-empty value, else the user's school or program text.
C2_UniformSchoolProgram ==
  df.shown =>
    \A r \in 1..Len(df.rows) : \A c \in 1..Len(GroupColumns) :
      /\ Cell(df, r, GroupColumns[c]) = Resolved(GroupColumns[c])
      /\ download.rows[r][c] = Resolved(GroupColumns[c]).v

\* C3: an answer that is not a JSON array of objects (an object, a scalar,
\* null, malformed text) is a failure of its file: one error is reported
\* for the file and the batch gets no record.
C3_NonArrayIsParseFailure ==
  [][(FileStep /\ NonArrayAnswer(outcomes'[i']))
       => (ReportsFileError /\ all_data' = all_data)]_vars

\* C4: every row of the table has a value in every column of the schema,
\* the empty string where the record has no such field.
C4_MissingFieldIsEmptyString ==
  df.shown =>
    /\ df.columns = desired_columns
    /\ Len(df.rows) = Len(all_data)
    /\ \A r \in 1..Len(df.rows) : \A c \in 1..Len(desired_columns) :
         /\ Len(df.rows[r]) = Len(desired_columns)
         /\ df.rows[r][c] # NaN
         /\ ~DictHas(all_data[r].v, desired_columns[c])
              => df.rows[r][c] = PyStr(<<>>)

\* C5: a run that ends with no record shows no table and no download and
\* reports "no data" once; a download exists only for a batch that has
\* records, and holds one row for each.
C5_EmptyBatchNoArtifact ==
  /\ (pc = "done" /\ all_data = <<>>)
       => /\ ~download.shown
          /\ ~df.shown
          /\ CountShown("warning_no_data") = 1
  /\ (pc = "done" /\ all_data # <<>>)
       => /\ download.shown
          /\ CountShown("warning_no_data") = 0
  /\ download.shown
       => /\ all_data # <<>>
          /\ Len(download.rows) = Len(all_data)

C5_Witness ==
  /\ pc = "done"
  /\ all_data = <<>>
  /\ Len(outcomes) = 2
  /\ outcomes[1].kind = "content_raises"
  /\ outcomes[2].val = PyList(<<>>)
  /\ outcomes[2].shape = "records"
  /\ CountShown("warning_no_data") = 1

GroupKey(r) == SubSeq(df.rows[r], 1, 4)

\* C6: the rows of the table that share a (School_CN, School_EN,
\* Program_CN, Program_EN) key are contiguous.
C6_GroupsContiguous ==
  df.shown =>
    \A a \in 1..Len(df.rows) : \A b \in a..Len(df.rows) :
      \A c \in b..Len(df.rows) :
        GroupKey(a) = GroupKey(c) => GroupKey(b) = GroupKey(a)

\* C7: when the extraction call of a file fails with message m, the error
\* reported for the file carries m.
C7_CallErrorVerbatim ==
  [][(FileStep /\ outcomes'[i'].kind = "content_raises")
       => (ReportsFileError
           /\ Contains(ui'[Len(ui')].detail, outcomes'[i'].m))]_vars

ConfigMissing == uploaded_files = <<>> \/ api_key = <<>>

\* C8: with no file or no API key, pressing the button reports the
\* configuration error and stops: no call, no record, no table, no
\* download, no "no data" message.
C8_ConfigErrorStops ==
  /\ ConfigMissing
       => /\ pc \in {"idle", "stopped"}
          /\ calls = <<>>
          /\ outcomes = <<>>
          /\ all_data = <<>>
          /\ ~df.shown
          /\ ~download.shown
          /\ CountShown("warning_no_data") = 0
  /\ pc = "stopped"
       => /\ ConfigMissing
          /\ ui = <<Shown(IF uploaded_files = <<>> THEN "warning_no_files"
                          ELSE "error_no_key", <<>>, <<>>)>>

C8_Witness ==
  /\ pc = "stopped"
  /\ Len(uploaded_files) = 2
  /\ api_key = <<>>
  /\ ui = <<Shown("error_no_key", <<>>, <<>>)>>

\* the records the service sent for file k, as sets of (key, value) pairs
\* with Source_File naming the file
SentRecords(k) ==
  IF outcomes[k].kind = "text" /\ outcomes[k].shape = "records"
    THEN outcomes[k].val.v
  ELSE <<>>

SentPairs(k, n) ==
  {p \in Range(SentRecords(k)[n].v) : p[1] # Source_File}
    \cup {<<Source_File, PyStr(uploaded_files[k].name)>>}

RECURSIVE ExpectedBatch(_)
ExpectedBatch(k) ==
  IF k = 0 THEN <<>>
  ELSE ExpectedBatch(k - 1)
       \o [n \in 1..Len(SentRecords(k)) |-> SentPairs(k, n)]

\* C9: the batch is the record lists of the files that parsed, in file
\* order and in answer order; each file is sent once, in order; every
\* record's Source_File is the name of the file whose answer held it.
C9_BatchIsOrderedConcatenation ==
  /\ Len(calls) = i
  /\ Len(outcomes) = i
  /\ \A k \in 1..Len(calls) : calls[k].file = uploaded_files[k].name
  /\ pc = "done" => Len(calls) = Len(uploaded_files)
  /\ Len(all_data) = Len(ExpectedBatch(i))
  /\ \A n \in 1..Len(all_data) :
       /\ all_data[n].t = "dict"
       /\ Range(all_data[n].v) = ExpectedBatch(i)[n]
       /\ Len(all_data[n].v) = Cardinality(ExpectedBatch(i)[n])

C9_Witness ==
  /\ pc = "done"
  /\ Len(outcomes) = 2
  /\ uploaded_files[1].name # uploaded_files[2].name
  /\ outcomes[1].val = PyList(<<RecordBare>>)
  /\ outcomes[2].val = PyList(<<RecordB, RecordA2>>)
  /\ Len(all_data) = 3
  /\ DictGet(all_data[1].v, Source_File) = PyStr(uploaded_files[1].name)
  /\ DictGet(all_data[3].v, Source_File) = PyStr(uploaded_files[2].name)

\* C10: for a well-formed fenced answer, the cleaned text decodes to the
\* array the payload between the fences decodes to, and cleaning the
\* cleaned text changes nothing.
C10_FenceStrippingLossless ==
  /\ cpc \in {"cleaned", "recleaned"}
       => /\ json_loads(payload).ok
          /\ json_loads(cleaned).ok
          /\ json_loads(cleaned).val.t = "list"
          /\ json_loads(cleaned).val = json_loads(payload).val
  /\ cpc = "recleaned" => recleaned = cleaned

C10_Witness ==
  /\ cpc = "recleaned"
  /\ startswith(strip(text), FenceJson)
  /\ text # strip(text)
  /\ payload # strip(payload)
  /\ json_loads(cleaned).val = PyList(<<RecordB, RecordA2>>)
  /\ recleaned = cleaned
====
